---- MODULE Spec2Model ----
(***************************************************************************)
(* Booking engine of dent_bot: the slot-style appointment lifecycle        *)
(* (dentbot/services/approval_service.py, dentbot/tools/                   *)
(* appointment_tools.py, dentbot/adapters/sqlite_adapter.py) and the       *)
(* range-style reservation tools (dent_bot/tools.py, dent_bot/adapters/    *)
(* sqlite_adapter.py).  Handlers run concurrently (the patient bot runs    *)
(* its tool loop in worker threads, channels/telegram.py:285) against one  *)
(* SQLite store; every adapter call is one atomic storage round trip.      *)
(***************************************************************************)
EXTENDS Integers, Sequences, FiniteSets, TLC

\* ---------------------------------------------------------------- bounds
Procs == {1, 2}
MaxCalls == 3
MaxRows == 2

\* ------------------------------------------------------ program constants
\* SlotService.buffer_minutes
buffer_minutes == 15

STATUS_PENDING == "pending"
STATUS_APPROVED == "approved"
STATUS_COMPLETED == "completed"
STATUS_CANCELLED == "cancelled"

\* absent value (Python None / SQL NULL / falsy chat id)
None == 0
\* absent or empty string argument (`if not new_date`): no characters
NoStr == <<>>

\* A time string "HH:MM" is the tuple of its four digits; f"{h:02d}:{m:02d}"
HM(h, m) == <<h \div 10, h % 10, m \div 10, m % 10>>
\* the empty string given for a time
NoTime == <<>>

\* A date string is the sequence of its characters: a digit is its value,
\* '-' and '.' are their character codes.
Dash == 45
Dot == 46
\* the string f"{y:04d}-{m:02d}-{d:02d}"
YMD(y, m, d) ==
    <<y \div 1000, (y \div 100) % 10, (y \div 10) % 10, y % 10, Dash,
      m \div 10, m % 10, Dash, d \div 10, d % 10>>

\* ------------------------------------------------------------ input sets
\* dentists table as seeded: dentist 1 has a telegram_chat_id, dentist 2
\* has NULL in that nullable column; id 3 matches no row.
\* Working days and hours are the ones config.py seeds.
dentists ==
    (1 :> [telegram_chat_id |-> 1000,
           working_days |-> {"Monday", "Tuesday", "Wednesday", "Thursday", "Friday"},
           start_time |-> HM(9, 0), end_time |-> HM(18, 0)])
    @@ (2 :> [telegram_chat_id |-> None,
              working_days |-> {"Monday", "Tuesday", "Wednesday", "Thursday"},
              start_time |-> HM(10, 0), end_time |-> HM(17, 0)])
DentistArgs == {1, 2, 3}
Dates == {YMD(2025, 12, 1)}
TimeSlots == {HM(10, 0), HM(10, 30)}
Durations == {30}
ChatIds == {None, 77}
ReqStatuses == {"none", STATUS_APPROVED}
IdArgs == 1..MaxRows

\* datetime.strptime(time_str, "%H:%M") followed by _time_to_minutes;
\* -1 stands for the ValueError / AppointmentError outcome.
_parse_time(s) ==
    LET hour == 10 * s[1] + s[2]
        minute == 10 * s[3] + s[4] IN
    IF hour \in 0..23 /\ minute \in 0..59 THEN hour * 60 + minute ELSE -1

\* Contact strings are sequences of character codes as well: a letter, '@',
\* '.' (Dot) and a blank.
Letter == 97
At == 64
Space == 32

\* _validate_email: "@" in email and "." in email
_validate_email(email) ==
    /\ \E i \in 1..Len(email) : email[i] = At
    /\ \E j \in 1..Len(email) : email[j] = Dot

RECURSIVE lstrip(_)
lstrip(str) == IF str # <<>> /\ Head(str) = Space THEN lstrip(Tail(str)) ELSE str
RECURSIVE rstrip(_)
rstrip(str) ==
    IF str # <<>> /\ str[Len(str)] = Space THEN rstrip(SubSeq(str, 1, Len(str) - 1)) ELSE str
\* mutant: only leading blanks are removed
strip_leading(str) == lstrip(str)
\* str.strip()
strip(str) == rstrip(lstrip(str))

\* value of the digits s[from..to]
DigitsValue(s, from, to) ==
    IF from = to THEN s[from] ELSE 10 * s[from] + s[to]

IsLeap(y) == (y % 4 = 0 /\ y % 100 # 0) \/ y % 400 = 0

DaysInMonth(y, m) ==
    IF m = 2 THEN (IF IsLeap(y) THEN 29 ELSE 28)
    ELSE IF m \in {4, 6, 9, 11} THEN 30 ELSE 31

RECURSIVE DaysBeforeMonth(_, _)
DaysBeforeMonth(y, m) ==
    IF m = 1 THEN 0 ELSE DaysBeforeMonth(y, m - 1) + DaysInMonth(y, m - 1)

\* datetime.date.toordinal
toordinal(y, m, d) ==
    LET y1 == y - 1 IN
    365 * y1 + y1 \div 4 - y1 \div 100 + y1 \div 400 + DaysBeforeMonth(y, m) + d

\* datetime.strptime(s, "%Y-%m-%d"): four digits, '-', a month of one or
\* two digits, '-', a day of one or two digits reaching the end of the string,
\* then the calendar check of datetime(); the day's ordinal, -1 for ValueError
_parse_date(s) ==
    LET n == Len(s)
        digit(i) == s[i] \in 0..9
        q == IF n >= 7 /\ s[7] = Dash THEN 7 ELSE 8   \* second '-'
    IN
    IF /\ n \in 8..10
       /\ \A i \in 1..4 : digit(i)
       /\ s[5] = Dash
       /\ q < n /\ s[q] = Dash
       /\ \A i \in 6..(q - 1) : digit(i)
       /\ n - q \in 1..2
       /\ \A i \in (q + 1)..n : digit(i)
    THEN LET y == 1000 * s[1] + 100 * s[2] + 10 * s[3] + s[4]
             m == DigitsValue(s, 6, q - 1)
             d == DigitsValue(s, q + 1, n)
         IN IF y >= 1 /\ m \in 1..12 /\ d \in 1..DaysInMonth(y, m)
            THEN toordinal(y, m, d) ELSE -1
    ELSE -1

_validate_date_format(s) == _parse_date(s) # -1

\* datetime.strftime("%A") of a parsed date; date.weekday() is
\* (toordinal() + 6) % 7 with Monday = 0
DayNames == <<"Monday", "Tuesday", "Wednesday", "Thursday", "Friday", "Saturday", "Sunday">>
day_of_week(s) == DayNames[((_parse_date(s) + 6) % 7) + 1]

VARIABLES
    appointments,   \* appointments table: id -> row
    lastrowid,      \* AUTOINCREMENT sequence of the appointments table
    outbox,         \* per booking id: notifications handed to the Telegram bots, in order
    pc,             \* handler position
    req,            \* handler's current call and its arguments
    loc,            \* handler's local row snapshot (dict returned by the adapter)
    result,         \* what the last call returned / raised
    effects,        \* externally visible effects of the current call, in order
    calls,          \* number of calls started so far
    send_errors,    \* per handler: notifications of the current call whose delivery raised (logged)
    reservations,   \* reservations table of the range-style store: id -> row
    res_lastrowid,  \* AUTOINCREMENT sequence of the reservations table
    cal,            \* Dentist whose slots are computed: working hours, break, slot_duration
    booked,         \* active bookings of that dentist on the queried day
    current_minute, \* generate_time_slots: loop cursor
    slots,          \* generate_time_slots: list built so far / returned
    gen_pc,         \* position inside get_available_slots
    available       \* get_available_slots: list returned

vars == <<appointments, lastrowid, outbox, pc, req, loc, result, effects, calls,
          send_errors, reservations, res_lastrowid,
          cal, booked, current_minute, slots, gen_pc, available>>
slotStore == <<appointments, lastrowid, outbox>>
rangeStore == <<reservations, res_lastrowid>>
slotGen == <<cal, booked, current_minute, slots, gen_pc, available>>

\* Dentist defaults (start_time .. slot_duration)
DefaultCalendar ==
    [start_time |-> HM(9, 0), end_time |-> HM(18, 0),
     break_start |-> HM(12, 0), break_end |-> HM(13, 0), slot_duration |-> 30]

\* no slot computation in progress
GenIdle ==
    /\ cal = DefaultCalendar
    /\ booked = {}
    /\ current_minute = 0
    /\ slots = <<>>
    /\ gen_pc = "idle"
    /\ available = <<>>

NoReq == [op |-> "none"]
NoRow == [id |-> None]

Rows == DOMAIN appointments

\* mutant: the table has no UNIQUE constraint
NoUniqueConstraint(tbl, self, d, dt, ts) == FALSE

\* UNIQUE(dentist_id, appointment_date, time_slot) ON CONFLICT FAIL
UniqueViolated(tbl, self, d, dt, ts) ==
    \E i \in DOMAIN tbl :
        /\ i # self
        /\ tbl[i].dentist_id = d
        /\ tbl[i].appointment_date = dt
        /\ tbl[i].time_slot = ts

\* SQLiteAppointmentAdapter._get_by_id / get_appointment
get_appointment(id) == IF id \in Rows THEN appointments[id] ELSE NoRow

\* NotificationService.send_*: one message handed to a bot for booking `id`
Send(id, kind) == [outbox EXCEPT ![id] = Append(@, kind)]

\* NotificationService.send_* 83-86: bot.send_message returns or raises; the
\* exception is caught inside send_* and logged, nothing reaches the caller
Deliver(p, kind) ==
    \E ok \in BOOLEAN :
        send_errors' = IF ok THEN send_errors
                       ELSE [send_errors EXCEPT ![p] = @ \cup {kind}]

Init ==
    /\ appointments = <<>>
    /\ lastrowid = 0
    /\ outbox = [i \in IdArgs |-> <<>>]
    /\ pc = [p \in Procs |-> "idle"]
    /\ req = [p \in Procs |-> NoReq]
    /\ loc = [p \in Procs |-> NoRow]
    /\ result = [p \in Procs |-> "none"]
    /\ effects = [p \in Procs |-> <<>>]
    /\ calls = 0
    /\ send_errors = [p \in Procs |-> {}]
    /\ reservations = <<>>
    /\ res_lastrowid = 0
    /\ GenIdle

Begin(p, r, first) ==
    /\ pc[p] = "idle"
    /\ calls < MaxCalls
    /\ calls' = calls + 1
    /\ pc' = [pc EXCEPT ![p] = first]
    /\ req' = [req EXCEPT ![p] = r]
    /\ loc' = [loc EXCEPT ![p] = NoRow]
    /\ result' = [result EXCEPT ![p] = "none"]
    /\ effects' = [effects EXCEPT ![p] = <<>>]
    /\ send_errors' = [send_errors EXCEPT ![p] = {}]

Finish(p, res, eff) ==
    /\ pc' = [pc EXCEPT ![p] = "idle"]
    /\ req' = [req EXCEPT ![p] = NoReq]
    /\ loc' = [loc EXCEPT ![p] = NoRow]
    /\ result' = [result EXCEPT ![p] = res]
    /\ effects' = [effects EXCEPT ![p] = effects[p] \o eff]

\* ------------------------------------------------------------------ create
\* appointment_tools._get_approval_service 16-43: the module-level
\* _approval_service is None and nothing assigns it; both constructor calls
\* pass notification_service=, a keyword ApprovalService.__init__
\* (approval_service.py 20-23) does not take, so the second one, inside the
\* except block, raises TypeError out of the function.
_get_approval_service == "TypeError"

\* A caller hands a request to create_appointment_request (via = "tool") or
\* to ApprovalService.create_pending_appointment directly (via = "service").
StartCreate(p) ==
    \E via \in {"tool", "service"}, d \in DentistArgs, dt \in Dates, ts \in TimeSlots,
       dur \in Durations, chat \in ChatIds, st \in ReqStatuses :
        /\ via = "tool" <=> st = "none"
        /\ lastrowid + Cardinality({q \in Procs : pc[q] \in {"create_tool", "create_insert"}}) < MaxRows
        /\ Begin(p, [op |-> "create", via |-> via, dentist_id |-> d,
                     appointment_date |-> dt, time_slot |-> ts,
                     duration_minutes |-> dur, patient_chat_id |-> chat,
                     status |-> st],
                 IF via = "tool" THEN "create_tool" ELSE "create_insert")
        /\ UNCHANGED slotStore
        /\ UNCHANGED rangeStore
        /\ UNCHANGED slotGen

\* create_appointment_request 146-160: what the tool returns for an outcome
\* of the service call; a direct caller of the service sees the outcome itself
ToolReport(via, outcome) ==
    IF via # "tool" THEN outcome
    ELSE CASE outcome = "created" -> "created"
           [] outcome = "DatabaseError_conflict" -> "conflict"
           [] outcome = "DatabaseError" -> "database_error"
           [] OTHER -> "unexpected_error"

\* create_appointment_request 119-144
CreateTool(p) ==
    /\ pc[p] = "create_tool"
    /\ IF req[p].patient_chat_id = None
       THEN Finish(p, "system_error", <<>>)
       ELSE IF ~_validate_date_format(req[p].appointment_date)
       THEN Finish(p, "invalid_date", <<>>)
       ELSE IF _get_approval_service = "TypeError"
       THEN Finish(p, "TypeError", <<>>)
       ELSE /\ pc' = [pc EXCEPT ![p] = "create_insert"]
            /\ UNCHANGED <<req, loc, result, effects>>
    /\ UNCHANGED <<appointments, lastrowid, outbox, calls>>
    /\ UNCHANGED rangeStore
    /\ UNCHANGED send_errors
    /\ UNCHANGED slotGen

\* mutant: the request's own status is stored when it carries one
PendingStatusFromRequest(r) == IF r.status = "none" THEN STATUS_PENDING ELSE r.status

\* create_pending_appointment line 56: the status stored for a request
PendingStatus(r) == STATUS_PENDING

\* mutant: the requester is sent the confirmation before the INSERT is tried
CreateInsertNotifyFirst(p) ==
    /\ pc[p] = "create_insert"
    /\ LET r == req[p]
           id == lastrowid + 1 IN
       /\ outbox' = Send(id, "confirmation")
       /\ IF UniqueViolated(appointments, None, r.dentist_id, r.appointment_date, r.time_slot)
          THEN /\ Finish(p, ToolReport(r.via, "DatabaseError_conflict"), <<"notify_requester">>)
               /\ UNCHANGED <<appointments, lastrowid, calls>>
          ELSE /\ appointments' = appointments @@
                      (id :> [id |-> id, dentist_id |-> r.dentist_id,
                              appointment_date |-> r.appointment_date,
                              time_slot |-> r.time_slot,
                              duration_minutes |-> r.duration_minutes,
                              status |-> PendingStatus(r),
                              patient_chat_id |-> r.patient_chat_id])
               /\ lastrowid' = id
               /\ loc' = [loc EXCEPT ![p] = [id |-> id]]
               /\ effects' = [effects EXCEPT ![p] = effects[p] \o <<"notify_requester", "persisted">>]
               /\ pc' = [pc EXCEPT ![p] = "create_readback"]
               /\ UNCHANGED <<req, result, calls>>
    /\ UNCHANGED rangeStore
    /\ UNCHANGED send_errors
    /\ UNCHANGED slotGen

\* create_pending_appointment 56-61 and the INSERT of
\* SQLiteAppointmentAdapter.create_appointment 219-234
CreateInsert(p) ==
    /\ pc[p] = "create_insert"
    /\ LET r == req[p] IN
       IF UniqueViolated(appointments, None, r.dentist_id, r.appointment_date, r.time_slot)
       THEN /\ Finish(p, ToolReport(r.via, "DatabaseError_conflict"), <<>>)
            /\ UNCHANGED <<appointments, lastrowid, outbox, calls>>
       ELSE LET id == lastrowid + 1 IN
            /\ appointments' = appointments @@
                   (id :> [id |-> id, dentist_id |-> r.dentist_id,
                           appointment_date |-> r.appointment_date,
                           time_slot |-> r.time_slot,
                           duration_minutes |-> r.duration_minutes,
                           status |-> PendingStatus(r),
                           patient_chat_id |-> r.patient_chat_id])
            /\ lastrowid' = id
            /\ loc' = [loc EXCEPT ![p] = [id |-> id]]
            /\ effects' = [effects EXCEPT ![p] = effects[p] \o <<"persisted">>]
            /\ pc' = [pc EXCEPT ![p] = "create_readback"]
            /\ UNCHANGED <<outbox, req, result, calls>>
    /\ UNCHANGED rangeStore
    /\ UNCHANGED send_errors
    /\ UNCHANGED slotGen

\* SQLiteAppointmentAdapter.create_appointment line 230: the read-back on a
\* second connection, `_get_by_id(...) or {"id": appointment_id}`
CreateReadback(p) ==
    /\ pc[p] = "create_readback"
    /\ loc' = [loc EXCEPT ![p] = IF loc[p].id \in Rows THEN appointments[loc[p].id]
                                  ELSE [id |-> loc[p].id]]
    /\ pc' = [pc EXCEPT ![p] = "create_notify_patient"]
    /\ UNCHANGED <<appointments, lastrowid, outbox, req, result, effects, calls>>
    /\ UNCHANGED rangeStore
    /\ UNCHANGED send_errors
    /\ UNCHANGED slotGen

\* a row dict that came back complete (SELECT *), not the {"id": ...} fallback
FullRow(row) == "dentist_id" \in DOMAIN row

\* create_pending_appointment 63-72
CreateNotifyPatient(p) ==
    /\ pc[p] = "create_notify_patient"
    /\ LET row == loc[p] IN
       IF ~FullRow(row)
       THEN \* .get('patient_chat_id') is None, then row['dentist_id'] raises KeyError
            /\ Finish(p, ToolReport(req[p].via, "KeyError"), <<>>)
            /\ UNCHANGED <<appointments, lastrowid, outbox, calls, send_errors>>
       ELSE /\ IF row.patient_chat_id # None
               THEN /\ outbox' = Send(row.id, "confirmation")
                    /\ Deliver(p, "confirmation")
                    /\ effects' = [effects EXCEPT ![p] = effects[p] \o <<"notify_requester">>]
               ELSE UNCHANGED <<outbox, effects, send_errors>>
            /\ pc' = [pc EXCEPT ![p] = "create_notify_dentist"]
            /\ UNCHANGED <<appointments, lastrowid, req, loc, result, calls>>
    /\ UNCHANGED rangeStore
    /\ UNCHANGED slotGen

\* ApprovalService._get_dentist_chat_id 38-50; -2 stands for the
\* AttributeError raised by `dentist_data.get` when get_dentist returned None
_get_dentist_chat_id(dentist_id) ==
    IF dentist_id \notin DOMAIN dentists THEN -2
    ELSE IF dentists[dentist_id].telegram_chat_id = None THEN -1
    ELSE dentists[dentist_id].telegram_chat_id

\* create_pending_appointment 72-84
CreateNotifyDentist(p) ==
    /\ pc[p] = "create_notify_dentist"
    /\ LET row == loc[p]
           dentist_chat_id == _get_dentist_chat_id(row.dentist_id) IN
       IF dentist_chat_id = -2
       THEN /\ Finish(p, ToolReport(req[p].via, "AttributeError"), <<>>)
            /\ UNCHANGED <<appointments, lastrowid, outbox, calls, send_errors>>
       ELSE IF dentist_chat_id # -1
       THEN /\ outbox' = Send(row.id, "approval_request")
            /\ Deliver(p, "approval_request")
            /\ Finish(p, ToolReport(req[p].via, "created"), <<"notify_owner", "returned">>)
            /\ UNCHANGED <<appointments, lastrowid, calls>>
       ELSE /\ Finish(p, ToolReport(req[p].via, "created"), <<"returned">>)
            /\ UNCHANGED <<appointments, lastrowid, outbox, calls, send_errors>>
    /\ UNCHANGED rangeStore
    /\ UNCHANGED slotGen

\* -------------------------------------------------------- approve / reject
StartDecide(p) ==
    \E o \in {"approve", "reject"}, id \in IdArgs :
        /\ Begin(p, [op |-> o, id |-> id], "decide_get")
        /\ UNCHANGED slotStore
        /\ UNCHANGED rangeStore
        /\ UNCHANGED slotGen

\* SQLiteAppointmentAdapter.approve_appointment 304-306
ApproveStatus == STATUS_APPROVED
\* mutant: reject writes the status approve writes
RejectStatusAsApprove == STATUS_APPROVED
\* SQLiteAppointmentAdapter.reject_appointment 308-310
RejectStatus == STATUS_CANCELLED

\* approve_appointment 90-92 / reject_appointment 112-114
DecideGet(p) ==
    /\ pc[p] = "decide_get"
    /\ IF req[p].id \in Rows
       THEN /\ pc' = [pc EXCEPT ![p] = "decide_update"]
            /\ UNCHANGED <<req, loc, result, effects>>
       ELSE Finish(p, "AppointmentError_not_found", <<>>)
    /\ UNCHANGED <<appointments, lastrowid, outbox, calls>>
    /\ UNCHANGED rangeStore
    /\ UNCHANGED send_errors
    /\ UNCHANGED slotGen

\* update_appointment 265-272: UPDATE appointments SET status = ? WHERE id = ?
DecideUpdate(p) ==
    /\ pc[p] = "decide_update"
    /\ LET id == req[p].id
           st == IF req[p].op = "approve" THEN ApproveStatus ELSE RejectStatus IN
       /\ appointments' = IF id \in Rows
                          THEN [appointments EXCEPT ![id].status = st]
                          ELSE appointments
       /\ pc' = [pc EXCEPT ![p] = "decide_reread"]
       /\ effects' = [effects EXCEPT ![p] =
                         IF id \in Rows THEN effects[p] \o <<"persisted">> ELSE effects[p]]
       /\ UNCHANGED <<req, loc, result>>
    /\ UNCHANGED <<lastrowid, outbox, calls>>
    /\ UNCHANGED rangeStore
    /\ UNCHANGED send_errors
    /\ UNCHANGED slotGen

\* update_appointment 273 (get_appointment) and approve_appointment 95-96 /
\* reject_appointment 117-118
DecideReread(p) ==
    /\ pc[p] = "decide_reread"
    /\ IF req[p].id \in Rows
       THEN /\ loc' = [loc EXCEPT ![p] = appointments[req[p].id]]
            /\ pc' = [pc EXCEPT ![p] = "decide_notify"]
            /\ UNCHANGED <<req, result, effects>>
       ELSE Finish(p, "DatabaseError", <<>>)
    /\ UNCHANGED <<appointments, lastrowid, outbox, calls>>
    /\ UNCHANGED rangeStore
    /\ UNCHANGED send_errors
    /\ UNCHANGED slotGen

\* approve_appointment 98-106 / reject_appointment 120-128
DecideNotify(p) ==
    /\ pc[p] = "decide_notify"
    /\ LET row == loc[p]
           kind == IF req[p].op = "approve" THEN "approved" ELSE "rejected"
           res == IF req[p].op = "approve" THEN "approve_ok" ELSE "reject_ok" IN
       IF row.patient_chat_id # None
       THEN /\ outbox' = Send(row.id, kind)
            /\ Deliver(p, kind)
            /\ Finish(p, res, <<"notify_requester", "returned">>)
       ELSE /\ UNCHANGED <<outbox, send_errors>>
            /\ Finish(p, res, <<"returned">>)
    /\ UNCHANGED <<appointments, lastrowid, calls>>
    /\ UNCHANGED rangeStore
    /\ UNCHANGED slotGen

\* ------------------------------------------------------------------ cancel
StartCancel(p) ==
    \E id \in IdArgs :
        /\ Begin(p, [op |-> "cancel", id |-> id], "cancel_get")
        /\ UNCHANGED slotStore
        /\ UNCHANGED rangeStore
        /\ UNCHANGED slotGen

\* cancel_appointment 206-208
CancelGet(p) ==
    /\ pc[p] = "cancel_get"
    /\ IF req[p].id \in Rows
       THEN /\ loc' = [loc EXCEPT ![p] = appointments[req[p].id]]
            /\ pc' = [pc EXCEPT ![p] = "cancel_delete"]
            /\ UNCHANGED <<req, result, effects>>
       ELSE Finish(p, "not_found", <<>>)
    /\ UNCHANGED <<appointments, lastrowid, outbox, calls>>
    /\ UNCHANGED rangeStore
    /\ UNCHANGED send_errors
    /\ UNCHANGED slotGen

\* SQLiteAppointmentAdapter.delete_appointment 280-285
delete_appointment(tbl, id) == [i \in DOMAIN tbl \ {id} |-> tbl[i]]

\* cancel_appointment 210-222: the DELETE, then the notification through
\* _get_approval_service(), which raises before anything is sent
CancelDelete(p) ==
    /\ pc[p] = "cancel_delete"
    /\ LET id == req[p].id IN
       IF id \in Rows
       THEN /\ appointments' = delete_appointment(appointments, id)
            /\ IF loc[p].patient_chat_id # None
               THEN IF _get_approval_service = "TypeError"
                    THEN /\ Finish(p, "TypeError", <<"deleted">>)
                         /\ UNCHANGED outbox
                    ELSE /\ outbox' = Send(id, "cancelled")
                         /\ Finish(p, "cancel_ok", <<"deleted", "notify_requester", "returned">>)
               ELSE /\ Finish(p, "cancel_ok", <<"deleted", "returned">>)
                    /\ UNCHANGED outbox
       ELSE /\ Finish(p, "cancel_failed", <<>>)
            /\ UNCHANGED <<appointments, outbox>>
    /\ UNCHANGED <<lastrowid, calls>>
    /\ UNCHANGED rangeStore
    /\ UNCHANGED send_errors
    /\ UNCHANGED slotGen

\* -------------------------------------------------------------- reschedule
\* new_date arguments of reschedule_appointment: the booked day or the next
NewDateArgs == Dates \cup {YMD(2025, 12, 2)}

StartReschedule(p) ==
    \E id \in IdArgs, nd \in NewDateArgs \cup {NoStr}, nt \in TimeSlots \cup {NoTime} :
        /\ Begin(p, [op |-> "reschedule", id |-> id, new_date |-> nd, new_time |-> nt],
                 "resched_update")
        /\ UNCHANGED slotStore
        /\ UNCHANGED rangeStore
        /\ UNCHANGED slotGen

\* mutant: the UPDATE also puts the booking back to pending
RescheduleUpdateResetsStatus(p) ==
    /\ pc[p] = "resched_update"
    /\ LET r == req[p]
           id == r.id IN
       IF r.new_date = NoStr /\ r.new_time = NoTime
       THEN /\ Finish(p, "nothing_to_change", <<>>)
            /\ UNCHANGED appointments
       ELSE IF r.new_date # NoStr /\ ~_validate_date_format(r.new_date)
       THEN /\ Finish(p, "invalid_date", <<>>)
            /\ UNCHANGED appointments
       ELSE IF id \notin Rows
       THEN /\ pc' = [pc EXCEPT ![p] = "resched_reread"]
            /\ UNCHANGED <<appointments, req, loc, result, effects>>
       ELSE LET old == appointments[id]
                dt == IF r.new_date # NoStr THEN r.new_date ELSE old.appointment_date
                ts == IF r.new_time # NoTime THEN r.new_time ELSE old.time_slot IN
            IF UniqueViolated(appointments, id, old.dentist_id, dt, ts)
            THEN /\ Finish(p, "conflict", <<>>)
                 /\ UNCHANGED appointments
            ELSE /\ appointments' = [appointments EXCEPT ![id].appointment_date = dt,
                                                          ![id].time_slot = ts,
                                                          ![id].status = STATUS_PENDING]
                 /\ pc' = [pc EXCEPT ![p] = "resched_reread"]
                 /\ effects' = [effects EXCEPT ![p] = effects[p] \o <<"persisted">>]
                 /\ UNCHANGED <<req, loc, result>>
    /\ UNCHANGED <<lastrowid, outbox, calls>>
    /\ UNCHANGED rangeStore
    /\ UNCHANGED send_errors
    /\ UNCHANGED slotGen

\* reschedule_appointment 240-253 and the UPDATE of update_appointment 261-277
RescheduleUpdate(p) ==
    /\ pc[p] = "resched_update"
    /\ LET r == req[p]
           id == r.id IN
       IF r.new_date = NoStr /\ r.new_time = NoTime
       THEN /\ Finish(p, "nothing_to_change", <<>>)
            /\ UNCHANGED appointments
       ELSE IF r.new_date # NoStr /\ ~_validate_date_format(r.new_date)
       THEN /\ Finish(p, "invalid_date", <<>>)
            /\ UNCHANGED appointments
       ELSE IF id \notin Rows
       THEN \* UPDATE matches no row; the re-read decides
            /\ pc' = [pc EXCEPT ![p] = "resched_reread"]
            /\ UNCHANGED <<appointments, req, loc, result, effects>>
       ELSE LET old == appointments[id]
                dt == IF r.new_date # NoStr THEN r.new_date ELSE old.appointment_date
                ts == IF r.new_time # NoTime THEN r.new_time ELSE old.time_slot IN
            IF UniqueViolated(appointments, id, old.dentist_id, dt, ts)
            THEN /\ Finish(p, "conflict", <<>>)
                 /\ UNCHANGED appointments
            ELSE /\ appointments' = [appointments EXCEPT ![id].appointment_date = dt,
                                                          ![id].time_slot = ts]
                 /\ pc' = [pc EXCEPT ![p] = "resched_reread"]
                 /\ effects' = [effects EXCEPT ![p] = effects[p] \o <<"persisted">>]
                 /\ UNCHANGED <<req, loc, result>>
    /\ UNCHANGED <<lastrowid, outbox, calls>>
    /\ UNCHANGED rangeStore
    /\ UNCHANGED send_errors
    /\ UNCHANGED slotGen

\* update_appointment 273 and reschedule_appointment 254-264
RescheduleReread(p) ==
    /\ pc[p] = "resched_reread"
    /\ IF req[p].id \in Rows
       THEN Finish(p, "reschedule_ok", <<"returned">>)
       ELSE Finish(p, "not_updated", <<>>)
    /\ UNCHANGED <<appointments, lastrowid, outbox, calls>>
    /\ UNCHANGED rangeStore
    /\ UNCHANGED send_errors
    /\ UNCHANGED slotGen

\* ------------------------------------------------------------- get details
StartDetails(p) ==
    \E id \in IdArgs :
        /\ Begin(p, [op |-> "details", id |-> id], "details_get")
        /\ UNCHANGED slotStore
        /\ UNCHANGED rangeStore
        /\ UNCHANGED slotGen

\* get_appointment_details 175-192
DetailsGet(p) ==
    /\ pc[p] = "details_get"
    /\ IF req[p].id \in Rows
       THEN Finish(p, "details_ok", <<"returned">>)
       ELSE Finish(p, "not_found", <<>>)
    /\ UNCHANGED <<appointments, lastrowid, outbox, calls>>
    /\ UNCHANGED rangeStore
    /\ UNCHANGED send_errors
    /\ UNCHANGED slotGen

SlotStep(p) ==
    \/ StartCreate(p)
    \/ CreateTool(p)
    \/ CreateInsert(p)
    \/ CreateReadback(p)
    \/ CreateNotifyPatient(p)
    \/ CreateNotifyDentist(p)
    \/ StartDecide(p)
    \/ DecideGet(p)
    \/ DecideUpdate(p)
    \/ DecideReread(p)
    \/ DecideNotify(p)
    \/ StartCancel(p)
    \/ CancelGet(p)
    \/ CancelDelete(p)
    \/ StartReschedule(p)
    \/ RescheduleUpdate(p)
    \/ RescheduleReread(p)
    \/ StartDetails(p)
    \/ DetailsGet(p)

Next == \E p \in Procs : SlotStep(p)

Spec == Init /\ [][Next]_vars

\* ------------------------------- create and reschedule with any date and time
\* "2025-12-01" (a Monday), "2025-12-06" (a Saturday), "2025-12-1" and
\* "01.12.2025"
RawDates ==
    {YMD(2025, 12, 1), YMD(2025, 12, 6),
     <<2, 0, 2, 5, Dash, 1, 2, Dash, 1>>,
     <<0, 1, Dot, 1, 2, Dot, 2, 0, 2, 5>>}
\* "10:00", "23:00" and "25:00"
RawTimes == {HM(10, 0), HM(23, 0), HM(25, 0)}

\* A caller hands ApprovalService.create_pending_appointment a request for
\* dentist 1 without a patient chat id.
StartCreateRaw(p) ==
    /\ lastrowid + Cardinality({q \in Procs : pc[q] = "create_insert"}) < MaxRows
    /\ \E dt \in RawDates, ts \in RawTimes, dur \in Durations :
         Begin(p, [op |-> "create", via |-> "service", dentist_id |-> 1,
                   appointment_date |-> dt, time_slot |-> ts,
                   duration_minutes |-> dur, patient_chat_id |-> None,
                   status |-> "none"], "create_insert")
    /\ UNCHANGED slotStore
    /\ UNCHANGED rangeStore
    /\ UNCHANGED slotGen

StartRescheduleRaw(p) ==
    \E id \in IdArgs, nd \in RawDates \cup {NoStr}, nt \in RawTimes \cup {NoTime} :
        /\ Begin(p, [op |-> "reschedule", id |-> id, new_date |-> nd, new_time |-> nt],
                 "resched_update")
        /\ UNCHANGED slotStore
        /\ UNCHANGED rangeStore
        /\ UNCHANGED slotGen

NextRaw ==
    \E p \in Procs :
        \/ StartCreateRaw(p)
        \/ CreateInsert(p)
        \/ CreateReadback(p)
        \/ CreateNotifyPatient(p)
        \/ CreateNotifyDentist(p)
        \/ StartRescheduleRaw(p)
        \/ RescheduleUpdate(p)
        \/ RescheduleReread(p)

SpecRaw == Init /\ [][NextRaw]_vars

\* ------------------------------------------- two creates racing for one slot
\* Two handlers are both inside create_pending_appointment with requests for
\* the same existing dentist, date and time slot; the store is empty.
InitRace ==
    /\ appointments = <<>>
    /\ lastrowid = 0
    /\ outbox = [i \in IdArgs |-> <<>>]
    /\ pc = [p \in Procs |-> "create_insert"]
    /\ \E d \in DOMAIN dentists, dt \in Dates, ts \in TimeSlots :
         req \in [Procs -> {[op |-> "create", via |-> "service", dentist_id |-> d,
                             appointment_date |-> dt, time_slot |-> ts,
                             duration_minutes |-> dur, patient_chat_id |-> chat,
                             status |-> st] :
                            dur \in Durations, chat \in ChatIds, st \in ReqStatuses}]
    /\ loc = [p \in Procs |-> NoRow]
    /\ result = [p \in Procs |-> "none"]
    /\ effects = [p \in Procs |-> <<>>]
    /\ calls = Cardinality(Procs)
    /\ send_errors = [p \in Procs |-> {}]
    /\ reservations = <<>>
    /\ res_lastrowid = 0
    /\ GenIdle

NextRace ==
    \E p \in Procs :
        \/ CreateInsert(p)
        \/ CreateReadback(p)
        \/ CreateNotifyPatient(p)
        \/ CreateNotifyDentist(p)

SpecRace == InitRace /\ [][NextRace]_vars

(***************************************************************************)
(* Range-style reservations: dent_bot/tools.py over the rooms and          *)
(* reservations tables of dent_bot/adapters/sqlite_adapter.py.  Each tool  *)
(* call runs in an executor thread, so calls interleave between their      *)
(* adapter calls (each adapter call is one connection, one commit).        *)
(***************************************************************************)
MaxReservations == 2

\* rooms table, two of the rows seed_sample_rooms creates: room 1 available for two
\* guests, room 2 in maintenance; room 3 does not exist
rooms == (1 :> [status |-> "available", capacity |-> 2])
      @@ (2 :> [status |-> "maintenance", capacity |-> 1])
RoomArgs == {1, 2, 3}
GoodDates == {YMD(2025, 12, 1), YMD(2025, 12, 2), YMD(2025, 12, 3)}
\* and "01.12.2025"
DateArgs == GoodDates \cup {<<0, 1, Dot, 1, 2, Dot, 2, 0, 2, 5>>}
GuestArgs == {1, 3}
\* "a@a.a", the email of the requests that vary room, dates and guests
DefaultEmail == <<Letter, At, Letter, Dot, Letter>>
ResIdArgs == 1..MaxReservations

\* mutant: a range ending on the day the other begins counts as overlapping
_dates_overlap_inclusive(check_in1, check_out1, check_in2, check_out2) ==
    /\ _parse_date(check_in1) <= _parse_date(check_out2)
    /\ _parse_date(check_in2) <= _parse_date(check_out1)

_dates_overlap(check_in1, check_out1, check_in2, check_out2) ==
    /\ _parse_date(check_in1) < _parse_date(check_out2)
    /\ _parse_date(check_in2) < _parse_date(check_out1)

get_room(room_id) == IF room_id \in DOMAIN rooms THEN rooms[room_id] ELSE NoRow

list_reservations_for_room(room_id) ==
    {i \in DOMAIN reservations : reservations[i].room_id = room_id}

StartReserve(p) ==
    /\ res_lastrowid + Cardinality({q \in Procs : pc[q] \in {"reserve_check", "reserve_insert"}})
         < MaxReservations
    /\ \E room \in RoomArgs, ci \in DateArgs, co \in DateArgs, g \in GuestArgs :
         Begin(p, [op |-> "reserve", room_id |-> room, check_in |-> ci,
                   check_out |-> co, guests |-> g, email |-> DefaultEmail], "reserve_check")
    /\ UNCHANGED rangeStore
    /\ UNCHANGED slotStore
    /\ UNCHANGED slotGen

\* create_reservation lines 215-244: validation, room checks and the
\* pre-insert overlap check, all on the state read at this moment (the
\* phone number of every request is a valid one)
ReserveCheck(p) ==
    /\ pc[p] = "reserve_check"
    /\ LET r == req[p]
           room == get_room(r.room_id) IN
       IF ~_validate_date_format(r.check_in) \/ ~_validate_date_format(r.check_out)
       THEN Finish(p, "invalid_date", <<>>)
       ELSE IF ~_validate_email(r.email)
       THEN Finish(p, "invalid_email", <<>>)
       ELSE IF room = NoRow
       THEN Finish(p, "room_not_found", <<>>)
       ELSE IF room.status # "available"
       THEN Finish(p, "room_unavailable", <<>>)
       ELSE IF room.capacity < r.guests
       THEN Finish(p, "capacity_exceeded", <<>>)
       ELSE IF \E i \in list_reservations_for_room(r.room_id) :
                   _dates_overlap(r.check_in, r.check_out,
                                  reservations[i].check_in, reservations[i].check_out)
       THEN Finish(p, "conflict", <<>>)
       ELSE /\ pc' = [pc EXCEPT ![p] = "reserve_insert"]
            /\ UNCHANGED <<req, loc, result, effects>>
    /\ UNCHANGED calls
    /\ UNCHANGED rangeStore
    /\ UNCHANGED slotStore
    /\ UNCHANGED send_errors
    /\ UNCHANGED slotGen

\* SQLiteReservationAdapter.create_reservation lines 104-114: the INSERT;
\* the table carries no constraint over room and dates
ReserveInsert(p) ==
    /\ pc[p] = "reserve_insert"
    /\ LET r == req[p]
           id == res_lastrowid + 1 IN
       /\ reservations' = reservations @@
              (id :> [id |-> id, room_id |-> r.room_id, check_in |-> r.check_in,
                      check_out |-> r.check_out, guests |-> r.guests,
                      email |-> strip(r.email)])
       /\ res_lastrowid' = id
       /\ loc' = [loc EXCEPT ![p] = [id |-> id]]
       /\ effects' = [effects EXCEPT ![p] = effects[p] \o <<"persisted">>]
       /\ pc' = [pc EXCEPT ![p] = "reserve_readback"]
    /\ UNCHANGED <<req, result, calls>>
    /\ UNCHANGED slotStore
    /\ UNCHANGED send_errors
    /\ UNCHANGED slotGen

\* line 115 and tools.py 256-270: get_reservation(id) or {"id": id}; the
\* reply reads full_name of what came back
ReserveReadback(p) ==
    /\ pc[p] = "reserve_readback"
    /\ IF loc[p].id \in DOMAIN reservations
       THEN Finish(p, "created", <<"returned">>)
       ELSE Finish(p, "KeyError", <<>>)
    /\ UNCHANGED calls
    /\ UNCHANGED rangeStore
    /\ UNCHANGED slotStore
    /\ UNCHANGED send_errors
    /\ UNCHANGED slotGen

StartCancelReservation(p) ==
    /\ \E id \in ResIdArgs :
         Begin(p, [op |-> "cancel_reservation", id |-> id], "rescancel_get")
    /\ UNCHANGED rangeStore
    /\ UNCHANGED slotStore
    /\ UNCHANGED slotGen

\* cancel_reservation lines 453-455
CancelReservationGet(p) ==
    /\ pc[p] = "rescancel_get"
    /\ IF req[p].id \in DOMAIN reservations
       THEN /\ pc' = [pc EXCEPT ![p] = "rescancel_delete"]
            /\ UNCHANGED <<req, loc, result, effects>>
       ELSE Finish(p, "not_found", <<>>)
    /\ UNCHANGED calls
    /\ UNCHANGED rangeStore
    /\ UNCHANGED slotStore
    /\ UNCHANGED send_errors
    /\ UNCHANGED slotGen

\* cancel_reservation lines 457-462 over delete_reservation 130-135
CancelReservationDelete(p) ==
    /\ pc[p] = "rescancel_delete"
    /\ IF req[p].id \in DOMAIN reservations
       THEN /\ reservations' = delete_appointment(reservations, req[p].id)
            /\ Finish(p, "cancel_ok", <<"deleted", "returned">>)
       ELSE /\ reservations' = reservations
            /\ Finish(p, "cancel_failed", <<>>)
    /\ UNCHANGED <<res_lastrowid, calls>>
    /\ UNCHANGED slotStore
    /\ UNCHANGED send_errors
    /\ UNCHANGED slotGen

StartAvailability(p) ==
    /\ \E ci \in DateArgs, co \in DateArgs, g \in GuestArgs :
         Begin(p, [op |-> "check_availability", check_in |-> ci, check_out |-> co,
                   guests |-> g], "avail_check")
    /\ UNCHANGED rangeStore
    /\ UNCHANGED slotStore
    /\ UNCHANGED slotGen

\* list_rooms(only_available=True) filtered by capacity (check_availability 154-155)
suitable_rooms(guests) ==
    {i \in DOMAIN rooms : rooms[i].status = "available" /\ rooms[i].capacity >= guests}

\* check_availability 149-185; loc keeps the rooms the reply lists
AvailabilityCheck(p) ==
    /\ pc[p] = "avail_check"
    /\ LET r == req[p] IN
       IF ~_validate_date_format(r.check_in) \/ ~_validate_date_format(r.check_out)
       THEN Finish(p, "invalid_date", <<>>)
       ELSE LET available_rooms ==
                    {i \in suitable_rooms(r.guests) :
                        ~\E j \in list_reservations_for_room(i) :
                            _dates_overlap(r.check_in, r.check_out,
                                           reservations[j].check_in, reservations[j].check_out)}
            IN /\ pc' = [pc EXCEPT ![p] = "idle"]
               /\ loc' = [loc EXCEPT ![p] = [id |-> None, rooms |-> available_rooms]]
               /\ result' = [result EXCEPT ![p] =
                                 IF available_rooms = {} THEN "no_rooms" ELSE "rooms_listed"]
               /\ effects' = [effects EXCEPT ![p] = effects[p] \o <<"returned">>]
               /\ UNCHANGED req
    /\ UNCHANGED calls
    /\ UNCHANGED rangeStore
    /\ UNCHANGED slotStore
    /\ UNCHANGED send_errors
    /\ UNCHANGED slotGen

RangeStep(p) ==
    \/ StartAvailability(p)
    \/ AvailabilityCheck(p)
    \/ StartReserve(p)
    \/ ReserveCheck(p)
    \/ ReserveInsert(p)
    \/ ReserveReadback(p)
    \/ StartCancelReservation(p)
    \/ CancelReservationGet(p)
    \/ CancelReservationDelete(p)

NextRange == \E p \in Procs : RangeStep(p)

SpecRange == Init /\ [][NextRange]_vars

\* ---- create_reservation with the email argument varied
MaxEmailLen == 3
RECURSIVE StringsUpTo(_, _)
StringsUpTo(chars, n) ==
    IF n = 0 THEN {<<>>}
    ELSE LET shorter == StringsUpTo(chars, n - 1) IN
         shorter \cup {<<c>> \o t : c \in chars, t \in {u \in shorter : Len(u) = n - 1}}
Emails == StringsUpTo({Letter, At, Dot, Space}, MaxEmailLen) \ {<<>>}

StartReserveContact(p) ==
    /\ res_lastrowid + Cardinality({q \in Procs : pc[q] \in {"reserve_check", "reserve_insert"}})
         < MaxReservations
    /\ \E em \in Emails, co \in {YMD(2025, 12, 2), YMD(2025, 12, 3)} :
         Begin(p, [op |-> "reserve", room_id |-> 1, check_in |-> YMD(2025, 12, 1),
                   check_out |-> co, guests |-> 1, email |-> em], "reserve_check")
    /\ UNCHANGED rangeStore
    /\ UNCHANGED slotStore
    /\ UNCHANGED slotGen

NextContact ==
    \E p \in Procs :
        \/ StartReserveContact(p)
        \/ ReserveCheck(p)
        \/ ReserveInsert(p)
        \/ ReserveReadback(p)

SpecContact == Init /\ [][NextContact]_vars

(***************************************************************************)
(* Slot computation: SlotService.get_available_slots from the call of      *)
(* generate_time_slots on (slot_service.py 103-130), for one dentist and   *)
(* one day.  generate_time_slots is followed one loop iteration at a time. *)
(***************************************************************************)
MaxSlots == 6

BadTime == HM(25, 0)
StartTimes == {HM(9, 0), HM(9, 1), BadTime}
EndTimes == {HM(10, 0), HM(10, 30)}
BreakTimes == {HM(8, 40), HM(9, 10), HM(9, 30), HM(10, 0)}
SlotDurations == {20, 30}
Calendars ==
    [start_time : StartTimes, end_time : EndTimes,
     break_start : BreakTimes, break_end : BreakTimes, slot_duration : SlotDurations]
\* stored active bookings the day may hold
BookedRows == {[time_slot |-> HM(9, 0), duration_minutes |-> 30]}

_minutes_to_time_str(minutes) == HM((minutes \div 60) % 24, minutes % 60)

start_min == _parse_time(cal.start_time)
end_min == _parse_time(cal.end_time)
break_start_min == _parse_time(cal.break_start)
break_end_min == _parse_time(cal.break_end)
duration == cal.slot_duration

\* mutant: a slot ending exactly at end_time is refused
PastEndInclusive(slot_end, e) == slot_end >= e
\* line 82
PastEnd(slot_end, e) == slot_end > e

\* mutant: the cursor moves one minute too far after a slot
AdvanceOneMore(c, d) == c + d + 1
\* line 87
Advance(c, d) == c + d

\* SQLiteAppointmentAdapter.get_booked_slots: SELECT time_slot ...; the
\* time strings alone, without durations
get_booked_slots == {b.time_slot : b \in booked}

InitSlots ==
    /\ appointments = <<>>
    /\ lastrowid = 0
    /\ outbox = [i \in IdArgs |-> <<>>]
    /\ pc = [p \in Procs |-> "idle"]
    /\ req = [p \in Procs |-> NoReq]
    /\ loc = [p \in Procs |-> NoRow]
    /\ result = [p \in Procs |-> "none"]
    /\ effects = [p \in Procs |-> <<>>]
    /\ calls = 0
    /\ send_errors = [p \in Procs |-> {}]
    /\ reservations = <<>>
    /\ res_lastrowid = 0
    /\ cal \in Calendars
    /\ booked \in SUBSET BookedRows
    /\ current_minute = 0
    /\ slots = <<>>
    /\ gen_pc = "parse"
    /\ available = <<>>

slotWorld == <<appointments, lastrowid, outbox, pc, req, loc, result, effects, calls,
               send_errors, reservations, res_lastrowid>>

\* generate_time_slots 56-67
GenerateParse ==
    /\ gen_pc = "parse"
    /\ IF \/ start_min = -1 \/ end_min = -1
          \/ break_start_min = -1 \/ break_end_min = -1
       THEN \* AppointmentError caught: return []
            /\ gen_pc' = "filter"
            /\ UNCHANGED current_minute
       ELSE /\ current_minute' = start_min
            /\ gen_pc' = "loop"
    /\ UNCHANGED <<cal, booked, slots, available>>
    /\ UNCHANGED slotWorld

\* generate_time_slots 69-89: one evaluation of the while condition and body
GenerateLoop ==
    /\ gen_pc = "loop"
    /\ LET slot_end == current_minute + duration IN
       IF ~(current_minute < end_min)
       THEN /\ gen_pc' = "filter"
            /\ UNCHANGED <<current_minute, slots>>
       ELSE IF current_minute >= break_start_min /\ current_minute < break_end_min
       THEN /\ current_minute' = break_end_min
            /\ UNCHANGED <<gen_pc, slots>>
       ELSE IF current_minute < break_start_min /\ slot_end > break_start_min
       THEN /\ current_minute' = break_end_min
            /\ UNCHANGED <<gen_pc, slots>>
       ELSE IF PastEnd(slot_end, end_min)
       THEN /\ gen_pc' = "filter"
            /\ UNCHANGED <<current_minute, slots>>
       ELSE \* a list that has outgrown MaxSlots is kept as its first MaxSlots
            \* entries; the loop itself goes on
            /\ slots' = IF Len(slots) < MaxSlots
                        THEN Append(slots, _minutes_to_time_str(current_minute))
                        ELSE slots
            /\ current_minute' = Advance(current_minute, duration)
            /\ UNCHANGED gen_pc
    /\ UNCHANGED <<cal, booked, available>>
    /\ UNCHANGED slotWorld

\* get_available_slots 107-130: booked_data holds strings, so the first
\* booking['time_slot'] (line 118) raises TypeError; it is reached when both
\* the slot list and booked_data are non-empty
AvailableFilter ==
    /\ gen_pc = "filter"
    /\ IF slots # <<>> /\ get_booked_slots # {}
       THEN /\ gen_pc' = "TypeError"
            /\ UNCHANGED available
       ELSE /\ gen_pc' = "done"
            /\ available' = slots
    /\ UNCHANGED <<cal, booked, current_minute, slots>>
    /\ UNCHANGED slotWorld

NextSlots ==
    \/ GenerateParse
    \/ GenerateLoop
    \/ AvailableFilter

SpecSlots == InitSlots /\ [][NextSlots]_vars

\* the interpreter keeps running the call
SpecSlotsFair == SpecSlots /\ WF_vars(NextSlots)

\* ---- get_available_slots from its first line: dentist lookup and working day
\* working_days of the two seeded dentists, as Dentist.from_dict splits them
WorkingDaySets ==
    {{"Monday", "Tuesday", "Wednesday", "Thursday", "Friday"},
     {"Monday", "Tuesday", "Wednesday", "Thursday"}}
\* a Monday, a Friday, a Saturday, and "01.12.2025"
QueryDates ==
    {YMD(2025, 12, 1), YMD(2025, 12, 5), YMD(2025, 12, 6),
     <<0, 1, Dot, 1, 2, Dot, 2, 0, 2, 5>>}
AvailCalendars == {c @@ [working_days |-> w] : c \in Calendars, w \in WorkingDaySets}

\* the arguments of the get_available_slots call under way
query == req[1]

\* Dentist.works_on_day
works_on_day(day_name) == day_name \in cal.working_days

InitAvail ==
    /\ appointments = <<>>
    /\ lastrowid = 0
    /\ outbox = [i \in IdArgs |-> <<>>]
    /\ pc = [p \in Procs |-> "idle"]
    /\ \E d \in {1, 3}, dt \in QueryDates :
         req = [p \in Procs |-> IF p = 1
                                 THEN [op |-> "get_available_slots", dentist_id |-> d, date |-> dt]
                                 ELSE NoReq]
    /\ loc = [p \in Procs |-> NoRow]
    /\ result = [p \in Procs |-> "none"]
    /\ effects = [p \in Procs |-> <<>>]
    /\ calls = 0
    /\ send_errors = [p \in Procs |-> {}]
    /\ reservations = <<>>
    /\ res_lastrowid = 0
    /\ cal \in AvailCalendars
    /\ booked \in SUBSET BookedRows
    /\ current_minute = 0
    /\ slots = <<>>
    /\ gen_pc = "start"
    /\ available = <<>>

\* get_available_slots 95-101: any exception of the lookup or of strptime,
\* and a day the dentist does not work, return []
AvailableStart ==
    /\ gen_pc = "start"
    /\ IF \/ query.dentist_id \notin DOMAIN dentists
          \/ _parse_date(query.date) = -1
          \/ ~works_on_day(day_of_week(query.date))
       THEN /\ gen_pc' = "closed"
            /\ available' = <<>>
       ELSE /\ gen_pc' = "parse"
            /\ UNCHANGED available
    /\ UNCHANGED <<cal, booked, current_minute, slots>>
    /\ UNCHANGED slotWorld

NextAvail ==
    \/ AvailableStart
    \/ GenerateParse
    \/ GenerateLoop
    \/ AvailableFilter

SpecAvail == InitAvail /\ [][NextAvail]_vars

\* ==================================================================== claims
Active(row) == row.status \in {STATUS_PENDING, STATUS_APPROVED}
Terminal(row) == row.status \in {"rejected", STATUS_CANCELLED, STATUS_COMPLETED}
SameSlot(row, d, dt, ts) ==
    row.dentist_id = d /\ row.appointment_date = dt /\ row.time_slot = ts
\* buffered interval [start, start + duration + buffer) of a stored booking
BufStart(row) == _parse_time(row.time_slot)
BufEnd(row) == _parse_time(row.time_slot) + row.duration_minutes + buffer_minutes

\* C1: in every reachable state, any two distinct active (pending/approved)
\* bookings of the same dentist and date have non-overlapping buffered
\* intervals [start, start + duration + 15).
C1_NoBufferedOverlap ==
    \A i \in Rows, j \in Rows :
        (/\ i # j
         /\ Active(appointments[i]) /\ Active(appointments[j])
         /\ appointments[i].dentist_id = appointments[j].dentist_id
         /\ appointments[i].appointment_date = appointments[j].appointment_date)
        => ~(/\ BufStart(appointments[i]) < BufEnd(appointments[j])
             /\ BufStart(appointments[j]) < BufEnd(appointments[i]))

\* C2: when both racing creates for one slot have returned, exactly one
\* returned the created booking, the other got the conflict error, and the
\* store holds exactly one booking for the slot.
C2_RaceOneWinner ==
    (\A p \in Procs : pc[p] = "idle") =>
        /\ Cardinality({p \in Procs : result[p] = "created"}) = 1
        /\ Cardinality({p \in Procs : result[p] = "DatabaseError_conflict"}) = 1
        /\ Cardinality(Rows) = 1
C2_Witness ==
    /\ \A p \in Procs : pc[p] = "idle"
    /\ \E p \in Procs : result[p] = "created"
    /\ \E p \in Procs : result[p] = "DatabaseError_conflict"
    /\ \E i \in Rows : appointments[i].status = STATUS_PENDING

\* C4: approve or reject of a stored booking that is not pending fails with
\* InvalidStateError and leaves the table as it was.
C4_DecideRequiresPending ==
    [][\A p \in Procs :
        (/\ pc[p] = "decide_update" /\ pc'[p] # pc[p]
         /\ req[p].id \in Rows
         /\ appointments[req[p].id].status # STATUS_PENDING)
        => (result'[p] = "InvalidStateError" /\ appointments' = appointments)]_vars

\* C5: once a stored booking is rejected, cancelled or completed, no step
\* changes its status while it stays stored.
C5_TerminalAbsorbing ==
    [][\A i \in Rows :
        (Terminal(appointments[i]) /\ i \in DOMAIN appointments')
        => appointments'[i].status = appointments[i].status]_vars

\* C6: a create for a slot that no pending or approved booking occupies
\* (only terminal bookings, or none, hold it) does not end in a conflict.
C6_TerminalNeverBlocks ==
    [][\A p \in Procs :
        (/\ pc[p] = "create_insert" /\ pc'[p] # pc[p]
         /\ ~\E i \in Rows : /\ Active(appointments[i])
                             /\ SameSlot(appointments[i], req[p].dentist_id,
                                         req[p].appointment_date, req[p].time_slot))
        => result'[p] \notin {"conflict", "DatabaseError_conflict"}]_vars

\* C7 (as claimed): reject of a pending booking stores the status "rejected",
\* a status distinct from cancelled.
C7_RejectSetsRejected ==
    [][\A p \in Procs :
        (/\ pc[p] = "decide_update" /\ pc'[p] # pc[p]
         /\ req[p].op = "reject"
         /\ req[p].id \in Rows
         /\ appointments[req[p].id].status = STATUS_PENDING)
        => appointments'[req[p].id].status = "rejected"]_vars

\* C7 (amended): reject of a pending booking stores the status cancelled and
\* changes nothing else in the table; when the call then returns the booking
\* it has sent the requester the rejection notification if the booking
\* carries a patient_chat_id, and nothing otherwise.
C7_RejectSetsCancelled ==
    [][\A p \in Procs :
        /\ (/\ pc[p] = "decide_update" /\ pc'[p] # pc[p]
            /\ req[p].op = "reject"
            /\ req[p].id \in Rows
            /\ appointments[req[p].id].status = STATUS_PENDING)
           => appointments' = [appointments EXCEPT ![req[p].id].status = STATUS_CANCELLED]
        /\ (/\ pc[p] = "decide_notify" /\ pc'[p] # pc[p]
            /\ req[p].op = "reject")
           => /\ result'[p] = "reject_ok"
              /\ outbox' = IF loc[p].patient_chat_id # None
                           THEN [outbox EXCEPT ![req[p].id] = Append(@, "rejected")]
                           ELSE outbox]_vars
C7_Witness ==
    \E p \in Procs, i \in Rows :
        /\ result[p] = "reject_ok"
        /\ appointments[i].status = STATUS_CANCELLED
        /\ outbox[i] = <<"confirmation", "approval_request", "rejected">>

\* C8: cancel of a pending or approved booking keeps the row, with status
\* cancelled, and sends the requester the cancellation notification.
C8_CancelKeepsRowCancelled ==
    [][\A p \in Procs :
        (/\ pc[p] = "cancel_delete" /\ pc'[p] # pc[p]
         /\ req[p].id \in Rows
         /\ Active(appointments[req[p].id]))
        => /\ req[p].id \in DOMAIN appointments'
           /\ appointments'[req[p].id].status = STATUS_CANCELLED
           /\ outbox'[req[p].id] = Append(outbox[req[p].id], "cancelled")]_vars

ConflictResults == {"conflict", "DatabaseError_conflict"}

\* C9: a create call that ends in the conflict error has produced no effect:
\* the step that reports it leaves the table and every outbox unchanged, and
\* the call has neither persisted nor notified anything before it.
C9_ConflictNoEffect ==
    [][\A p \in Procs :
        (/\ req[p].op = "create"
         /\ pc[p] # "idle" /\ pc'[p] = "idle"
         /\ result'[p] \in ConflictResults)
        => /\ appointments' = appointments
           /\ outbox' = outbox
           /\ effects'[p] = <<>>]_vars
C9_Witness ==
    \E p \in Procs :
        /\ result[p] \in ConflictResults
        /\ effects[p] = <<>>
        /\ \E i \in Rows : Active(appointments[i])

\* C10 (as claimed): every create that returned the created booking has
\* persisted, notified the requester, notified the owner and returned, in
\* that order.
C10_AlwaysBothNotified ==
    \A p \in Procs :
        result[p] = "created"
        => effects[p] = <<"persisted", "notify_requester", "notify_owner", "returned">>

\* C10 (amended): the row a create inserts has status pending whatever status
\* the request carried, and a create that returns the created booking has
\* had exactly these effects in this order: persisted, requester notified
\* (only if the request carries a patient_chat_id), owner notified (only if
\* the dentist has a telegram_chat_id), returned.
C10_PendingThenNotifyInOrder ==
    [][\A p \in Procs :
        /\ (pc[p] = "create_insert" /\ pc'[p] = "create_readback")
           => /\ lastrowid' \notin Rows
              /\ lastrowid' \in DOMAIN appointments'
              /\ appointments'[lastrowid'].status = STATUS_PENDING
        /\ (pc[p] # "idle" /\ pc'[p] = "idle" /\ result'[p] = "created")
           => effects'[p] =
                <<"persisted">>
                \o (IF req[p].patient_chat_id # None THEN <<"notify_requester">> ELSE <<>>)
                \o (IF dentists[req[p].dentist_id].telegram_chat_id # None
                    THEN <<"notify_owner">> ELSE <<>>)
                \o <<"returned">>]_vars
C10_Witness ==
    /\ \E p \in Procs :
         /\ result[p] = "created"
         /\ effects[p] = <<"persisted", "notify_requester", "notify_owner", "returned">>
    /\ \E q \in Procs :
         /\ pc[q] = "create_readback"
         /\ req[q].status = STATUS_APPROVED
         /\ appointments[loc[q].id].status = STATUS_PENDING

\* C3: a room never holds two reservations whose [check_in, check_out)
\* ranges overlap, also when two create_reservation calls race past the
\* pre-insert overlap check.
C3_NoOverlappingReservations ==
    \A i, j \in DOMAIN reservations :
        (i # j /\ reservations[i].room_id = reservations[j].room_id)
        => ~_dates_overlap(reservations[i].check_in, reservations[i].check_out,
                           reservations[j].check_in, reservations[j].check_out)

SuccessResults == {"created", "approve_ok", "reject_ok", "cancel_ok"}

\* C11: a step of create, approve, reject or cancel that notifies, taken
\* after the transition was written, never ends the call in a failure and
\* never undoes what was written, whatever happens to the notification.
C11_NotifyFailureNotEscalated ==
    [][\A p \in Procs :
        (/\ pc'[p] # pc[p]
         /\ \/ pc[p] = "create_notify_patient" /\ FullRow(loc[p])
            \/ pc[p] \in {"create_notify_dentist", "decide_notify"}
            \/ pc[p] = "cancel_delete" /\ req[p].id \in Rows)
        => /\ pc'[p] = "idle" => result'[p] \in SuccessResults
           /\ pc[p] # "cancel_delete" => appointments' = appointments]_vars

NotFoundResults == {"AppointmentError_not_found", "not_found"}

\* C12: approve, reject, cancel, reschedule (with a new date or time) and
\* get-details on an id that was never stored end in a not-found error, send
\* nothing and leave the table unchanged.
C12_UnknownIdNotFound ==
    [][\A p \in Procs :
        (/\ pc[p] # "idle" /\ pc'[p] = "idle"
         /\ req[p].op \in {"approve", "reject", "cancel", "reschedule", "details"}
         /\ req[p].id > lastrowid
         /\ req[p].op = "reschedule" => (req[p].new_date # NoStr \/ req[p].new_time # NoTime))
        => /\ result'[p] \in NotFoundResults
           /\ appointments' = appointments
           /\ outbox' = outbox]_vars

\* slot conflict rule: candidate [s1, s1 + d1) against a stored booking
Collides(s1, d1, row) ==
    /\ s1 < BufEnd(row)
    /\ BufStart(row) < s1 + d1

\* C13: a reschedule (with a new date or time) whose new interval collides
\* with another active booking of the same dentist and date ends in the
\* conflict error and changes nothing.
C13_RescheduleRefusesCollision ==
    [][\A p \in Procs :
        (/\ pc[p] = "resched_update" /\ pc'[p] # pc[p]
         /\ req[p].id \in Rows
         /\ req[p].new_date # NoStr \/ req[p].new_time # NoTime
         /\ LET old == appointments[req[p].id]
                dt == IF req[p].new_date # NoStr THEN req[p].new_date ELSE old.appointment_date
                ts == IF req[p].new_time # NoTime THEN req[p].new_time ELSE old.time_slot IN
            \E j \in Rows \ {req[p].id} :
                /\ Active(appointments[j])
                /\ appointments[j].dentist_id = old.dentist_id
                /\ appointments[j].appointment_date = dt
                /\ Collides(_parse_time(ts), old.duration_minutes, appointments[j]))
        => /\ result'[p] = "conflict"
           /\ appointments' = appointments]_vars

\* C14: the UPDATE of a reschedule writes the supplied date and/or time into
\* the booking and nothing else: status, dentist, duration and contact stay,
\* an omitted date or time keeps its value, no other row changes; no other
\* step of a reschedule writes the table.
C14_RescheduleFrame ==
    [][\A p \in Procs :
        (req[p].op = "reschedule" /\ pc'[p] # pc[p])
        => IF pc[p] = "resched_update" /\ pc'[p] = "resched_reread" /\ req[p].id \in Rows
           THEN appointments' =
                  [appointments EXCEPT
                     ![req[p].id].appointment_date =
                         IF req[p].new_date # NoStr THEN req[p].new_date ELSE @,
                     ![req[p].id].time_slot =
                         IF req[p].new_time # NoTime THEN req[p].new_time ELSE @]
           ELSE appointments' = appointments]_vars
C14_Witness ==
    \E p \in Procs, i \in Rows :
        /\ result[p] = "reschedule_ok"
        /\ appointments[i].appointment_date = YMD(2025, 12, 2)
        /\ appointments[i].time_slot = HM(10, 0)
        /\ appointments[i].status = STATUS_APPROVED

Returned == gen_pc \in {"filter", "done", "TypeError"}
RealBreak == break_start_min < break_end_min

\* C15: every start time in the list generate_time_slots returns lies
\* within working hours with its whole slot, and its slot does not intersect
\* the break window [break_start, break_end).
C15_SlotsInsideHoursOutsideBreak ==
    Returned =>
        \A k \in 1..Len(slots) :
            LET t == _parse_time(slots[k]) IN
            /\ start_min <= t
            /\ t + duration <= end_min
            /\ ~(RealBreak /\ t < break_end_min /\ break_start_min < t + duration)

\* C16 (as claimed): with a break window break_start < break_end, each start
\* time in the list equals the previous one plus slot_duration.
C16_EvenlySpaced ==
    RealBreak =>
        \A k \in 1..(Len(slots) - 1) :
            _parse_time(slots[k + 1]) = _parse_time(slots[k]) + duration

\* C16 (amended): each start time appended to the list equals the previous
\* one plus slot_duration or equals break_end (the cursor having jumped over
\* the break); the first one is start_time or break_end.
C16_SpacedOrAtBreakEnd ==
    [][slots' # slots =>
        \E t \in {current_minute} :
            /\ slots' = Append(slots, _minutes_to_time_str(t))
            /\ \/ t = break_end_min
               \/ slots = <<>> /\ t = start_min
               \/ slots # <<>> /\ t = _parse_time(slots[Len(slots)]) + duration]_vars
C16_Witness ==
    /\ gen_pc = "done"
    /\ RealBreak
    /\ \E k \in 1..(Len(slots) - 1) :
         /\ slots[k + 1] = cal.break_end
         /\ _parse_time(slots[k + 1]) > _parse_time(slots[k]) + duration

NoBreakSlots ==
    LET n == IF end_min > start_min THEN (end_min - start_min) \div duration ELSE 0 IN
    [k \in 1..n |-> _minutes_to_time_str(start_min + (k - 1) * duration)]

\* C18: when break_start = break_end, the list generate_time_slots returns
\* is the one for the same hours with no break at all.
C18_EmptyBreakIgnored ==
    (/\ Returned
     /\ start_min # -1
     /\ break_start_min = break_end_min)
    => slots = NoBreakSlots

\* C19: generate_time_slots returns, whatever the break window is.
C19_Terminates == <>Returned

\* C20: get_available_slots returns a list, and a generated start time is
\* in it iff it is not busy against any active booking of the day: busy
\* meaning s1 < s2 + d2 + buffer and s2 < s1 + d1.
C20_BusyRule ==
    gen_pc \in {"done", "TypeError"} =>
        /\ gen_pc = "done"
        /\ \A k \in 1..Len(slots) :
             (\E j \in 1..Len(available) : available[j] = slots[k])
             <=> ~\E b \in booked : Collides(_parse_time(slots[k]), duration, b)

\* C21: when get_available_slots is over it has returned a list: the empty
\* one on a day outside the dentist's working_days, otherwise the generated
\* start times that are not busy against the day's active bookings, in the
\* generated order.
C21_AvailableIsFilteredGenerated ==
    LET Free(t) == ~\E b \in booked : Collides(_parse_time(t), duration, b) IN
    (/\ gen_pc \in {"closed", "done", "TypeError"}
     /\ query.dentist_id \in DOMAIN dentists
     /\ _parse_date(query.date) # -1)
    => IF works_on_day(day_of_week(query.date))
       THEN gen_pc = "done" /\ available = SelectSeq(slots, Free)
       ELSE gen_pc = "closed" /\ available = <<>>

\* the conflict rule on the days' ordinals: [in1, out1) and [in2, out2)
RangesConflict(in1, out1, in2, out2) == in1 < out2 /\ in2 < out1

\* C22: create_reservation's check, for a well-formed request on a room
\* that exists, is available and large enough, refuses with a conflict
\* exactly when the requested range conflicts (in1 < out2 and in2 < out1)
\* with a reservation stored for the room, and otherwise goes on to the
\* insert; check_availability lists exactly the suitable rooms that have no
\* conflicting reservation.
C22_RangeRule ==
    [][\A p \in Procs :
        /\ (/\ pc[p] = "reserve_check" /\ pc'[p] # "reserve_check"
            /\ _validate_date_format(req[p].check_in)
            /\ _validate_date_format(req[p].check_out)
            /\ req[p].room_id \in suitable_rooms(req[p].guests))
           => LET busy == \E i \in DOMAIN reservations :
                              /\ reservations[i].room_id = req[p].room_id
                              /\ RangesConflict(_parse_date(req[p].check_in),
                                                _parse_date(req[p].check_out),
                                                _parse_date(reservations[i].check_in),
                                                _parse_date(reservations[i].check_out))
              IN IF busy THEN result'[p] = "conflict" /\ pc'[p] = "idle"
                 ELSE pc'[p] = "reserve_insert"
        /\ (pc[p] = "avail_check" /\ result'[p] \in {"no_rooms", "rooms_listed"})
           => loc'[p].rooms =
                {r \in suitable_rooms(req[p].guests) :
                    ~\E i \in DOMAIN reservations :
                        /\ reservations[i].room_id = r
                        /\ RangesConflict(_parse_date(req[p].check_in),
                                          _parse_date(req[p].check_out),
                                          _parse_date(reservations[i].check_in),
                                          _parse_date(reservations[i].check_out))}]_vars
\* a reservation that checks in on the day another one of the room checks
\* out was accepted after it, and a conflicting request was refused
C22_Witness ==
    /\ \E i, j \in DOMAIN reservations :
         /\ i < j
         /\ reservations[i].room_id = reservations[j].room_id
         /\ reservations[j].check_in = reservations[i].check_out
         /\ _parse_date(reservations[i].check_in) < _parse_date(reservations[i].check_out)
         /\ _parse_date(reservations[j].check_in) < _parse_date(reservations[j].check_out)
    /\ \E p \in Procs : result[p] = "conflict"

\* C25: every stored reservation has its check_in strictly before its
\* check_out.
C25_CheckOutAfterCheckIn ==
    \A i \in DOMAIN reservations :
        _parse_date(reservations[i].check_in) < _parse_date(reservations[i].check_out)

\* C26: every stored booking refers to a dentist of the dentists table.
C26_BookedResourceExists ==
    \A i \in Rows : appointments[i].dentist_id \in DOMAIN dentists

\* positions of an '@' followed later by a '.'
DotAfterAt(email) ==
    \E i, j \in 1..Len(email) : email[i] = At /\ email[j] = Dot /\ i < j

\* C23: create_reservation lets a request past its email validation exactly
\* when the email holds an '@' and a '.' after it; any other email ends the
\* call with the validation error and nothing stored.
C23_EmailDotAfterAt ==
    [][\A p \in Procs :
        (pc[p] = "reserve_check" /\ pc'[p] # "reserve_check")
        => IF DotAfterAt(req[p].email)
           THEN result'[p] # "invalid_email"
           ELSE result'[p] = "invalid_email" /\ pc'[p] = "idle"]_vars

\* the string without its leading and trailing blanks
Trimmed(str) ==
    LET keep == {i \in 1..Len(str) : str[i] # Space} IN
    IF keep = {} THEN <<>>
    ELSE LET lo == CHOOSE i \in keep : \A k \in keep : i <= k
             hi == CHOOSE i \in keep : \A k \in keep : k <= i
         IN SubSeq(str, lo, hi)

Canonical(date) == Len(date) = 10 /\ _parse_date(date) # -1

\* C24: reschedule_appointment, called for a stored booking with a new date
\* that is not a calendar date in the zero-padded form YYYY-MM-DD or with a
\* new time that is not a valid HH:MM time, ends with a validation error and
\* leaves the appointments table as it was.
C24_RescheduleRefusesMalformed ==
    [][\A p \in Procs :
        (/\ pc[p] = "resched_update" /\ pc'[p] # "resched_update"
         /\ req[p].id \in Rows
         /\ \/ req[p].new_date # NoStr /\ ~Canonical(req[p].new_date)
            \/ req[p].new_time # NoTime /\ _parse_time(req[p].new_time) = -1)
        => /\ result'[p] \in {"invalid_date", "invalid_time"}
           /\ appointments' = appointments]_vars

\* C27: every stored booking of a dentist of the table is on one of the
\* dentist's working days and its interval lies within the dentist's
\* working hours.
C27_StoredWithinCalendar ==
    \A i \in Rows :
        LET row == appointments[i] IN
        (row.dentist_id \in DOMAIN dentists /\ Canonical(row.appointment_date))
        => LET dentist == dentists[row.dentist_id]
               start == _parse_time(row.time_slot) IN
           /\ day_of_week(row.appointment_date) \in dentist.working_days
           /\ _parse_time(dentist.start_time) <= start
           /\ start + row.duration_minutes <= _parse_time(dentist.end_time)

DecisionsSent(id) ==
    {k \in 1..Len(outbox[id]) : outbox[id][k] \in {"approved", "rejected"}}

\* C30: for every booking, the requester is sent at most one approved or
\* rejected notification, and the one sent agrees with the stored status of
\* the booking while the booking is stored.
C30_OneDecisionNotified ==
    \A id \in IdArgs :
        /\ Cardinality(DecisionsSent(id)) <= 1
        /\ \A k \in DecisionsSent(id) :
             (id \in Rows /\ \A p \in Procs : pc[p] = "idle")
             => appointments[id].status =
                    IF outbox[id][k] = "approved" THEN ApproveStatus ELSE RejectStatus
====
